---- MODULE Spec2Model ----
(***************************************************************************)
(* Rule-based review engine of chat-code-reviewer (the heuristic variant   *)
(* of app/api/review/route.ts).  A string is a sequence of one-character   *)
(* strings; a diagnostic built from a template literal is the tuple of the *)
(* template's parts.                                                       *)
(***************************************************************************)
EXTENDS Integers, Sequences, FiniteSets, TLC

VARIABLES language, code, call, issues, fixed, review,
          request, handled, responses,
          pending, served,
          isLoading, error, inFlight, shown

\* the engine: the arguments, the function applied, the values returned
engineVars == <<language, code, call, issues, fixed, review>>

\* the route handler: the request, whether POST ran, the responses it returned
httpVars == <<request, handled, responses>>

\* the server process: the requests whose handler waits for its body, and
\* the requests answered so far, each with what was returned for it
serverVars == <<pending, served>>

\* the page component: its state besides language, code and review, the
\* fetches not yet settled, and which handleReview call wrote what is shown
pageVars == <<isLoading, error, inFlight, shown>>

vars == <<language, code, call, issues, fixed, review,
          request, handled, responses, pending, served,
          isLoading, error, inFlight, shown>>

(***************************************************************************)
(* String primitives of the JavaScript runtime the engine uses.            *)
(***************************************************************************)

\* String.prototype.includes
Includes(s, pat) ==
  \E i \in 1..(Len(s) - Len(pat) + 1) : SubSeq(s, i, i + Len(pat) - 1) = pat

\* String.prototype.startsWith
StartsWith(s, pat) ==
  /\ Len(pat) <= Len(s)
  /\ SubSeq(s, 1, Len(pat)) = pat

\* String.prototype.endsWith
EndsWith(s, pat) ==
  /\ Len(pat) <= Len(s)
  /\ SubSeq(s, Len(s) - Len(pat) + 1, Len(s)) = pat

\* the white space String.prototype.trim strips (the part the inputs can hold)
WhiteSpace == {" ", "\t", "\r", "\n"}

RECURSIVE TrimStart(_)
TrimStart(s) ==
  IF s # <<>> /\ Head(s) \in WhiteSpace THEN TrimStart(Tail(s)) ELSE s

RECURSIVE TrimEnd(_)
TrimEnd(s) ==
  IF s # <<>> /\ s[Len(s)] \in WhiteSpace
    THEN TrimEnd(SubSeq(s, 1, Len(s) - 1))
    ELSE s

\* String.prototype.trim
Trim(s) == TrimEnd(TrimStart(s))

\* String.prototype.split("\n"): the empty string gives one empty line
RECURSIVE SplitLines(_)
SplitLines(s) ==
  IF \A i \in 1..Len(s) : s[i] # "\n"
    THEN <<s>>
    ELSE LET k == CHOOSE i \in 1..Len(s) :
                    /\ s[i] = "\n"
                    /\ \A j \in 1..(i - 1) : s[j] # "\n"
         IN  <<SubSeq(s, 1, k - 1)>> \o SplitLines(SubSeq(s, k + 1, Len(s)))

\* Array.prototype.join("\n")
RECURSIVE JoinLines(_)
JoinLines(ls) ==
  IF Len(ls) = 0 THEN <<>>
  ELSE IF Len(ls) = 1 THEN ls[1]
  ELSE ls[1] \o <<"\n">> \o JoinLines(Tail(ls))

\* (line.match(/"/g) || []).length
QuoteCount(line) == Cardinality({i \in 1..Len(line) : line[i] = "\""})

UpperCase == <<"A","B","C","D","E","F","G","H","I","J","K","L","M",
               "N","O","P","Q","R","S","T","U","V","W","X","Y","Z">>
LowerCase == <<"a","b","c","d","e","f","g","h","i","j","k","l","m",
               "n","o","p","q","r","s","t","u","v","w","x","y","z">>

\* String.prototype.toLowerCase
ToLowerCase(s) ==
  [i \in 1..Len(s) |->
     IF \E k \in 1..26 : UpperCase[k] = s[i]
       THEN LowerCase[CHOOSE k \in 1..26 : UpperCase[k] = s[i]]
       ELSE s[i]]

(***************************************************************************)
(* The substrings the engine searches for.                                 *)
(***************************************************************************)
StrEq          == <<"=">>
StrSemi        == <<";">>
StrQuote       == <<"\"">>
StrLBrace      == <<"{">>
StrRBrace      == <<"}">>
StrSlashes     == <<"/", "/">>
StrIf          == <<"i", "f">>
StrFor         == <<"f", "o", "r">>
StrWhile       == <<"w", "h", "i", "l", "e">>
StrReturn      == <<"r", "e", "t", "u", "r", "n">>
StrTodo        == <<"t", "o", "d", "o">>
StrCout        == <<"c", "o", "u", "t", " ", "<", "<">>
StrCin         == <<"c", "i", "n", " ", ">", ">">>
StrConsoleLog  == <<"c", "o", "n", "s", "o", "l", "e", ".", "l", "o", "g">>
StrPrintln     == <<"S", "y", "s", "t", "e", "m", ".", "o", "u", "t", ".",
                    "p", "r", "i", "n", "t", "l", "n">>
StrPrintCall   == <<"p", "r", "i", "n", "t", "(">>
StrNew         == <<"n", "e", "w", " ">>
StrMalloc      == <<"m", "a", "l", "l", "o", "c">>

(***************************************************************************)
(* Diagnostics.                                                            *)
(***************************************************************************)
MismatchMsg(ch, i) == <<"Mismatched '", ch, "' at position ", i>>
NotClosedMsg       == <<"Opening braces/brackets not closed.">>
SemicolonMsg(n)    == <<"Line ", n, ": Missing semicolon (';')">>
QuoteMsg(n)        == <<"Line ", n, ": Unclosed string literal (missing \")">>
DebugMsg           == <<"Debug output detected (cout / console.log / print).">>
TodoMsg            == <<"TODO comments present in code.">>
NoIssuesMsg        == <<"No obvious issues detected by rule engine.">>

(***************************************************************************)
(* checkUnbalancedBraces                                                   *)
(***************************************************************************)
Opening == {"(", "{", "["}
Closing == {")", "}", "]"}

\* the value Array.prototype.pop returns on an empty array
Undefined == "undefined"

\* pairs with two of its values exchanged
PairsSwapped(ch) ==
  CASE ch = ")" -> "("
    [] ch = "}" -> "["
    [] ch = "]" -> "{"

\* pairs[ch]
Pairs(ch) ==
  CASE ch = ")" -> "("
    [] ch = "}" -> "{"
    [] ch = "]" -> "["

\* the scan loop with a pop of the empty stack taken for a match
BraceStepSilentOnEmpty(st, ch, i) ==
  LET pushed == IF ch \in Opening THEN Append(st.stack, ch) ELSE st.stack
  IN  IF ch \in Closing
        THEN IF pushed = <<>> THEN [stack |-> pushed, errors |-> st.errors]
             ELSE [stack  |-> SubSeq(pushed, 1, Len(pushed) - 1),
                   errors |-> IF pushed[Len(pushed)] # Pairs(ch)
                                THEN Append(st.errors, MismatchMsg(ch, i))
                                ELSE st.errors]
        ELSE [stack |-> pushed, errors |-> st.errors]

\* the scan loop with the opener left on the stack when it does not match
BraceStepKeepOnMismatch(st, ch, i) ==
  LET pushed == IF ch \in Opening THEN Append(st.stack, ch) ELSE st.stack
  IN  IF ch \in Closing
        THEN IF pushed # <<>> /\ pushed[Len(pushed)] = Pairs(ch)
               THEN [stack  |-> SubSeq(pushed, 1, Len(pushed) - 1),
                     errors |-> st.errors]
               ELSE [stack  |-> pushed,
                     errors |-> Append(st.errors, MismatchMsg(ch, i))]
        ELSE [stack |-> pushed, errors |-> st.errors]

\* one iteration of the scan loop on character ch at 0-based index i
BraceStep(st, ch, i) ==
  LET pushed   == IF ch \in Opening THEN Append(st.stack, ch) ELSE st.stack
  IN  IF ch \in Closing
        THEN LET expected == Pairs(ch)
                 actual   == IF pushed = <<>> THEN Undefined
                             ELSE pushed[Len(pushed)]
                 popped   == IF pushed = <<>> THEN pushed
                             ELSE SubSeq(pushed, 1, Len(pushed) - 1)
             IN  [stack  |-> popped,
                  errors |-> IF actual # expected
                               THEN Append(st.errors, MismatchMsg(ch, i))
                               ELSE st.errors]
        ELSE [stack |-> pushed, errors |-> st.errors]

\* stack and errors after the first n iterations of the scan loop
RECURSIVE ScanBraces(_, _)
ScanBraces(c, n) ==
  IF n = 0 THEN [stack |-> <<>>, errors |-> <<>>]
  ELSE BraceStep(ScanBraces(c, n - 1), c[n], n - 1)

\* one closing diagnostic for every opener left on the stack
CheckUnbalancedBracesPerOpener(c) ==
  LET st == ScanBraces(c, Len(c))
  IN  st.errors \o [k \in 1..Len(st.stack) |-> NotClosedMsg]

\* a scan that leaves out the brackets inside double-quoted literals
CheckUnbalancedBracesOutsideStrings(c) ==
  LET inString(i) == Cardinality({j \in 1..(i - 1) : c[j] = "\""}) % 2 = 1
      outside == [i \in 1..Len(c) |-> IF inString(i) THEN "x" ELSE c[i]]
      st == ScanBraces(outside, Len(c))
  IN  IF Len(st.stack) # 0 THEN Append(st.errors, NotClosedMsg) ELSE st.errors

CheckUnbalancedBraces(c) ==
  LET st == ScanBraces(c, Len(c))
  IN  IF Len(st.stack) # 0 THEN Append(st.errors, NotClosedMsg) ELSE st.errors

(***************************************************************************)
(* detectMissingSemicolons                                                 *)
(***************************************************************************)
\* the language list with a language that uses no terminator
SemicolonLanguagesWithGo == {"C++", "Java", "JavaScript", "TypeScript", "Go"}

SemicolonLanguages == {"C++", "Java", "JavaScript", "TypeScript"}

LikelyStatement(line) ==
  \/ Includes(line, StrEq)
  \/ Includes(line, StrCout)
  \/ Includes(line, StrCin)
  \/ Includes(line, StrReturn)
  \/ Includes(line, StrConsoleLog)
  \/ Includes(line, StrPrintln)

\* the forEach callback pushes a diagnostic for this raw line
MissingSemicolon(raw) ==
  LET line == Trim(raw)
  IN  /\ line # <<>>
      /\ ~StartsWith(line, StrSlashes)
      /\ ~(EndsWith(line, StrLBrace) \/ EndsWith(line, StrRBrace))
      /\ LikelyStatement(line)
      /\ ~EndsWith(line, StrSemi)

\* the diagnostics pushed for lines i..Len(ls), in order
RECURSIVE SemicolonIssues(_, _)
SemicolonIssues(ls, i) ==
  IF i > Len(ls) THEN <<>>
  ELSE (IF MissingSemicolon(ls[i]) THEN <<SemicolonMsg(i)>> ELSE <<>>)
       \o SemicolonIssues(ls, i + 1)

DetectMissingSemicolons(lang, c) ==
  IF lang \notin SemicolonLanguages THEN <<>>
  ELSE SemicolonIssues(SplitLines(c), 1)

(***************************************************************************)
(* detectUnclosedQuotes                                                    *)
(***************************************************************************)
UnclosedQuote(line) == QuoteCount(line) % 2 # 0

\* the forEach index used as the line number
RECURSIVE QuoteIssuesZeroBased(_, _)
QuoteIssuesZeroBased(ls, i) ==
  IF i > Len(ls) THEN <<>>
  ELSE (IF UnclosedQuote(ls[i]) THEN <<QuoteMsg(i - 1)>> ELSE <<>>)
       \o QuoteIssuesZeroBased(ls, i + 1)

RECURSIVE QuoteIssues(_, _)
QuoteIssues(ls, i) ==
  IF i > Len(ls) THEN <<>>
  ELSE (IF UnclosedQuote(ls[i]) THEN <<QuoteMsg(i)>> ELSE <<>>)
       \o QuoteIssues(ls, i + 1)

DetectUnclosedQuotes(c) == QuoteIssues(SplitLines(c), 1)

(***************************************************************************)
(* generateSuggestedFix                                                    *)
(***************************************************************************)
FixLanguages == {"C++", "Java", "JavaScript", "TypeScript"}

FixLikelyStatement(trimmed) ==
  \/ Includes(trimmed, StrEq)
  \/ Includes(trimmed, StrCout)
  \/ Includes(trimmed, StrCin)
  \/ Includes(trimmed, StrReturn)
  \/ Includes(trimmed, StrConsoleLog)
  \/ Includes(trimmed, StrPrintln)

FixIgnore(trimmed) ==
  \/ EndsWith(trimmed, StrLBrace)
  \/ EndsWith(trimmed, StrRBrace)
  \/ StartsWith(trimmed, StrIf)
  \/ StartsWith(trimmed, StrFor)
  \/ StartsWith(trimmed, StrWhile)

\* the map callback building on the trimmed line instead of the line
FixLineTrimmed(line) ==
  LET trimmed == Trim(line)
      quoted  == IF QuoteCount(line) % 2 # 0 THEN trimmed \o StrQuote ELSE trimmed
  IN  IF /\ FixLikelyStatement(trimmed)
         /\ ~EndsWith(trimmed, StrSemi)
         /\ ~FixIgnore(trimmed)
        THEN quoted \o StrSemi
        ELSE quoted

\* the map callback doing one repair per line, the terminator first
FixLineOneRepair(line) ==
  LET trimmed == Trim(line)
  IN  IF /\ FixLikelyStatement(trimmed)
         /\ ~EndsWith(trimmed, StrSemi)
         /\ ~FixIgnore(trimmed)
        THEN line \o StrSemi
        ELSE IF QuoteCount(line) % 2 # 0 THEN line \o StrQuote ELSE line

\* the map callback: trimmed is taken from the line before the quote repair
FixLine(line) ==
  LET trimmed == Trim(line)
      quoted  == IF QuoteCount(line) % 2 # 0 THEN line \o StrQuote ELSE line
  IN  IF /\ FixLikelyStatement(trimmed)
         /\ ~EndsWith(trimmed, StrSemi)
         /\ ~FixIgnore(trimmed)
        THEN quoted \o StrSemi
        ELSE quoted

\* the repair without the language test
GenerateSuggestedFixAnyLanguage(lang, c) ==
  LET ls == SplitLines(c)
  IN  JoinLines([i \in 1..Len(ls) |-> FixLine(ls[i])])

GenerateSuggestedFix(lang, c) ==
  IF lang \notin FixLanguages THEN c
  ELSE LET ls == SplitLines(c)
       IN  JoinLines([i \in 1..Len(ls) |-> FixLine(ls[i])])

(***************************************************************************)
(* analyzeCodeHeuristics                                                   *)
(***************************************************************************)
MatchAt(s, i, pat) ==
  /\ i + Len(pat) - 1 <= Len(s)
  /\ SubSeq(s, i, i + Len(pat) - 1) = pat

LoopWords == {StrFor, StrWhile}

\* /for|while/.test(code)
HasLoop(c) == \E i \in 1..Len(c) : \E w \in LoopWords : MatchAt(c, i, w)

\* a nested pattern that wants a '{' between the two keywords
NestedEnclosing(c) ==
  \E i \in 1..Len(c) : \E w \in LoopWords :
    /\ MatchAt(c, i, w)
    /\ \E j \in (i + Len(w))..Len(c) : \E v \in LoopWords :
         /\ MatchAt(c, j, v)
         /\ \E b \in (i + Len(w))..(j - 1) : c[b] = "{"

\* /(for|while)[\s\S]*(for|while)/.test(code)
Nested(c) ==
  \E i \in 1..Len(c) : \E w \in LoopWords :
    /\ MatchAt(c, i, w)
    /\ \E j \in (i + Len(w))..Len(c) : \E v \in LoopWords : MatchAt(c, j, v)

TimeConstant  == "O(1)"
TimeLinear    == "O(n)"
TimeQuadratic == "O(n^2)"    \* the source writes the exponent as a superscript

\* the two upgrades in the other order
TimeLabelLoopLast(c) ==
  LET t1 == IF Nested(c) THEN TimeQuadratic ELSE TimeConstant
  IN  IF HasLoop(c) THEN TimeLinear ELSE t1

TimeLabel(c) ==
  LET t1 == IF HasLoop(c) THEN TimeLinear ELSE TimeConstant
  IN  IF Nested(c) THEN TimeQuadratic ELSE t1

SpaceLabel(c) ==
  IF Includes(c, StrNew) \/ Includes(c, StrMalloc) THEN "O(n)" ELSE "O(1)"

DebugOutput(c) ==
  \/ Includes(c, StrCout)
  \/ Includes(c, StrConsoleLog)
  \/ Includes(c, StrPrintCall)

HasTodo(c) == Includes(ToLowerCase(c), StrTodo)

\* the potential array without the placeholder
PotentialItemsNoPlaceholder(lang, c) ==
  LET collected == DetectMissingSemicolons(lang, c)
                     \o DetectUnclosedQuotes(c)
                     \o CheckUnbalancedBraces(c)
      debug     == IF DebugOutput(c) THEN Append(collected, DebugMsg)
                   ELSE collected
  IN  IF HasTodo(c) THEN Append(debug, TodoMsg) ELSE debug

\* the potential array with the quote check collected first
PotentialItemsQuotesFirst(lang, c) ==
  LET collected == DetectUnclosedQuotes(c)
                     \o DetectMissingSemicolons(lang, c)
                     \o CheckUnbalancedBraces(c)
      debug     == IF DebugOutput(c) THEN Append(collected, DebugMsg)
                   ELSE collected
      todo      == IF HasTodo(c) THEN Append(debug, TodoMsg) ELSE debug
  IN  IF Len(todo) = 0 THEN Append(todo, NoIssuesMsg) ELSE todo

\* the potential array when the response is built
PotentialItems(lang, c) ==
  LET collected == DetectMissingSemicolons(lang, c)
                     \o DetectUnclosedQuotes(c)
                     \o CheckUnbalancedBraces(c)
      debug     == IF DebugOutput(c) THEN Append(collected, DebugMsg)
                   ELSE collected
      todo      == IF HasTodo(c) THEN Append(debug, TodoMsg) ELSE debug
  IN  IF Len(todo) = 0 THEN Append(todo, NoIssuesMsg) ELSE todo

ImprovementItems ==
  << <<"Use meaningful variable and function names.">>,
     <<"Add edge case tests.">>,
     <<"Split large functions into smaller ones.">> >>

AnalyzeCodeHeuristics(lang, c) ==
  [language        |-> lang,
   summary         |-> "Review generated using rule-based static analysis engine.",
   suggestedFix    |-> GenerateSuggestedFix(lang, c),
   potentialIssues |-> [title |-> "Potential Issues",
                        items |-> PotentialItems(lang, c)],
   improvements    |-> [title |-> "Improvements", items |-> ImprovementItems],
   complexity      |-> [time  |-> TimeLabel(c),
                        space |-> SpaceLabel(c),
                        notes |-> "Heuristic static analysis (rule-based, not compiler-level)."]]

(***************************************************************************)
(* Inputs.  A code text is a concatenation of at most n words; each family *)
(* of inputs has the words one group of checkers reacts to.                *)
(***************************************************************************)
MaxBraceWords == 4
MaxLineWords  == 4
MaxLoopWords  == 4
MaxNoteWords  == 4
MaxStatementWords == 4

\* LANGUAGES of the page, and a value the page does not offer
LANGUAGES == {"C++", "Java", "Python", "JavaScript", "TypeScript", "Go"}
LanguageInputs == LANGUAGES \cup {"javascript"}

RECURSIVE Texts(_, _)
Texts(words, n) ==
  IF n = 0 THEN {<<>>}
  ELSE LET shorter == Texts(words, n - 1)
       IN  shorter \cup {t \o w : t \in shorter, w \in words}

BraceWords == {<<"(">>, <<")">>, <<"{">>, <<"}">>, <<"[">>, <<"]">>, <<"x">>,
               StrQuote, StrSlashes}
LineWords  == {<<"x">>, StrEq, StrSemi, StrQuote, <<"\n">>, <<" ">>, StrFor}
LoopInputWords == {StrFor, StrWhile, StrLBrace, StrRBrace, <<"x">>}

BraceInputs == {"JavaScript", "Python"} \X Texts(BraceWords, MaxBraceWords)
LineInputs  == LanguageInputs \X Texts(LineWords, MaxLineWords)
LoopInputs  == {"Go"} \X Texts(LoopInputWords, MaxLoopWords)

StrFixMe == <<"F", "i", "x", "M", "e">>
NoteWords == {StrTodo, <<"T", "o", "D", "O">>, StrFixMe, StrPrintCall, StrCout,
              StrQuote, <<"x">>, <<")">>}
NoteInputs  == {"C++", "Python"} \X Texts(NoteWords, MaxNoteWords)

StrColon == <<":">>
StrClass == <<"c", "l", "a", "s", "s">>
StatementWords == {<<"x">>, StrEq, StrColon, StrSlashes, StrLBrace, StrRBrace,
                   StrIf, StrClass, StrReturn, <<" ">>}
StatementInputs == {"TypeScript"} \X Texts(StatementWords, MaxStatementWords)

Inputs == BraceInputs \cup LineInputs \cup LoopInputs \cup NoteInputs
            \cup StatementInputs

Null == <<>>

Init ==
  /\ \E inp \in Inputs : language = inp[1] /\ code = inp[2]
  /\ call = "none"
  /\ issues = Null
  /\ fixed = Null
  /\ review = Null
  /\ request = Null
  /\ handled = FALSE
  /\ responses = <<>>
  /\ pending = <<>>
  /\ served = <<>>
  /\ isLoading = FALSE
  /\ error = <<>>
  /\ inFlight = <<>>
  /\ shown = "none"

(***************************************************************************)
(* One action per function of the engine, applied to the input.            *)
(***************************************************************************)
CallCheckUnbalancedBraces ==
  /\ call = "none"
  /\ call' = "checkUnbalancedBraces"
  /\ issues' = CheckUnbalancedBraces(code)
  /\ UNCHANGED <<language, code, fixed, review>>
  /\ UNCHANGED <<httpVars, serverVars, pageVars>>

CallDetectMissingSemicolons ==
  /\ call = "none"
  /\ call' = "detectMissingSemicolons"
  /\ issues' = DetectMissingSemicolons(language, code)
  /\ UNCHANGED <<language, code, fixed, review>>
  /\ UNCHANGED <<httpVars, serverVars, pageVars>>

CallDetectUnclosedQuotes ==
  /\ call = "none"
  /\ call' = "detectUnclosedQuotes"
  /\ issues' = DetectUnclosedQuotes(code)
  /\ UNCHANGED <<language, code, fixed, review>>
  /\ UNCHANGED <<httpVars, serverVars, pageVars>>

CallGenerateSuggestedFix ==
  /\ call = "none"
  /\ call' = "generateSuggestedFix"
  /\ fixed' = GenerateSuggestedFix(language, code)
  /\ UNCHANGED <<language, code, issues, review>>
  /\ UNCHANGED <<httpVars, serverVars, pageVars>>

CallAnalyzeCodeHeuristics ==
  /\ call = "none"
  /\ call' = "analyzeCodeHeuristics"
  /\ review' = AnalyzeCodeHeuristics(language, code)
  /\ UNCHANGED <<language, code, issues, fixed>>
  /\ UNCHANGED <<httpVars, serverVars, pageVars>>

Next ==
  \/ CallCheckUnbalancedBraces
  \/ CallDetectMissingSemicolons
  \/ CallDetectUnclosedQuotes
  \/ CallGenerateSuggestedFix
  \/ CallAnalyzeCodeHeuristics

Spec == Init /\ [][Next]_vars

(***************************************************************************)
(* The route handler POST and its request schema.  A JSON value is a       *)
(* record of its type and, for a string, its text.                         *)
(***************************************************************************)
MinLanguageLength == 1
MinCodeLength     == 5

JsonUndefined == [type |-> "undefined", text |-> <<>>]
JsonNumber    == [type |-> "number", text |-> <<>>]
JsonString(t) == [type |-> "string", text |-> t]

\* the characters of a language name, and the language a text names; the
\* engine compares the name as a whole
Chars(l) ==
  CASE l = "C++"        -> <<"C", "+", "+">>
    [] l = "Java"       -> <<"J", "a", "v", "a">>
    [] l = "Python"     -> <<"P", "y", "t", "h", "o", "n">>
    [] l = "JavaScript" -> <<"J", "a", "v", "a", "S", "c", "r", "i", "p", "t">>
    [] l = "TypeScript" -> <<"T", "y", "p", "e", "S", "c", "r", "i", "p", "t">>
    [] l = "Go"         -> <<"G", "o">>
    [] l = "javascript" -> <<"j", "a", "v", "a", "s", "c", "r", "i", "p", "t">>

LanguageOf(t) ==
  IF \E l \in LanguageInputs : Chars(l) = t
    THEN CHOOSE l \in LanguageInputs : Chars(l) = t
    ELSE t

\* messages of the schema library's issues
RequiredMsg            == <<"Required">>
InvalidTypeMsg(ex, re) == <<"Expected ", ex, ", received ", re>>
TooSmallMsg(min)       == <<"String must contain at least ", min, " character(s)">>

\* z.string().min(min) on one field: the issues it raises
StringMinIssues(v, min) ==
  IF v.type = "undefined" THEN <<RequiredMsg>>
  ELSE IF v.type # "string" THEN <<InvalidTypeMsg("string", v.type)>>
  ELSE IF Len(v.text) < min THEN <<TooSmallMsg(min)>>
  ELSE <<>>

\* the schema with the language test left out
SafeParseCodeOnly(body) ==
  IF body.type # "object"
    THEN [success |-> FALSE,
          issues  |-> <<InvalidTypeMsg("object", body.type)>>]
    ELSE LET found == StringMinIssues(body.code, MinCodeLength)
         IN  IF found = <<>>
               THEN [success |-> TRUE,
                     data    |-> [language |-> LanguageOf(body.language.text),
                                  code     |-> body.code.text]]
               ELSE [success |-> FALSE, issues |-> found]

\* ReviewRequestSchema.safeParse(body)
SafeParse(body) ==
  IF body.type # "object"
    THEN [success |-> FALSE,
          issues  |-> <<InvalidTypeMsg("object", body.type)>>]
    ELSE LET found == StringMinIssues(body.language, MinLanguageLength)
                        \o StringMinIssues(body.code, MinCodeLength)
         IN  IF found = <<>>
               THEN [success |-> TRUE,
                     data    |-> [language |-> LanguageOf(body.language.text),
                                  code     |-> body.code.text]]
               ELSE [success |-> FALSE, issues |-> found]

InternalErrorMsg == <<"Internal error while analyzing code.">>

\* NextResponse.json(body, { status })
JsonResponse(body, status) == [status |-> status, body |-> body]

\* the handler without its try/catch: a body that does not parse lets the
\* exception out and nothing is returned
POSTNoCatch(req) ==
  IF req.type = "malformed"
    THEN [returned |-> <<>>, analysed |-> FALSE]
    ELSE LET parsed == SafeParse(req)
         IN  IF ~parsed.success
               THEN [returned |-> <<JsonResponse([error |-> parsed.issues[1]], 400)>>,
                     analysed |-> FALSE]
               ELSE [returned |-> <<JsonResponse(
                                      AnalyzeCodeHeuristics(parsed.data.language,
                                                            parsed.data.code), 200)>>,
                     analysed |-> TRUE,
                     data     |-> parsed.data]

\* POST(req): what the handler returns, and the arguments of the analysis
\* when it ran; req.json() throws on a body that is no JSON
POST(req) ==
  IF req.type = "malformed"
    THEN [returned |-> <<JsonResponse([error |-> InternalErrorMsg], 500)>>,
          analysed |-> FALSE]
    ELSE LET parsed == SafeParse(req)
         IN  IF ~parsed.success
               THEN [returned |-> <<JsonResponse([error |-> parsed.issues[1]], 400)>>,
                     analysed |-> FALSE]
               ELSE [returned |-> <<JsonResponse(
                                      AnalyzeCodeHeuristics(parsed.data.language,
                                                            parsed.data.code), 200)>>,
                     analysed |-> TRUE,
                     data     |-> parsed.data]

\* request bodies: no JSON, a JSON value that is no object, an object whose
\* two fields are absent, no string, or a string
MaxRequestChars == 6

RequestWords == {<<" ">>, <<"x">>, StrEq}

LanguageFields ==
  {JsonUndefined, JsonNumber, JsonString(<<>>),
   JsonString(<<"J", "a", "v", "a">>), JsonString(<<"G", "o">>)}

CodeFields ==
  {JsonUndefined, JsonNumber}
    \cup {JsonString(t) : t \in Texts(RequestWords, MaxRequestChars)}

Requests ==
  {[type |-> "malformed"], [type |-> "null"]}
    \cup {[type |-> "object", language |-> l, code |-> c] :
            l \in LanguageFields, c \in CodeFields}

InitPost ==
  /\ request \in Requests
  /\ handled = FALSE
  /\ responses = <<>>
  /\ pending = <<>>
  /\ served = <<>>
  /\ isLoading = FALSE
  /\ error = <<>>
  /\ inFlight = <<>>
  /\ shown = "none"
  /\ language = Null
  /\ code = Null
  /\ call = "none"
  /\ issues = Null
  /\ fixed = Null
  /\ review = Null

Post ==
  /\ ~handled
  /\ handled' = TRUE
  /\ LET done == POST(request)
     IN  /\ responses' = done.returned
         /\ IF done.analysed
              THEN /\ language' = done.data.language
                   /\ code' = done.data.code
                   /\ call' = "analyzeCodeHeuristics"
                   /\ review' = done.returned[1].body
              ELSE UNCHANGED <<language, code, call, review>>
  /\ UNCHANGED <<request, issues, fixed, serverVars, pageVars>>

NextPost == Post

SpecPost == InitPost /\ [][NextPost]_vars

(***************************************************************************)
(* The server process: several requests, each handler suspended once at    *)
(* await req.json() and resumed in any order.                              *)
(***************************************************************************)
MaxRequests == 3

ServerRequests ==
  {[type |-> "malformed"],
   [type |-> "object", language |-> JsonString(<<"G", "o">>),
                       code     |-> JsonString(<<"x", "=", "x">>)]}
    \cup {[type |-> "object", language |-> JsonString(l), code |-> JsonString(c)] :
            l \in {<<"J", "a", "v", "a">>, <<"G", "o">>},
            c \in {<<"x", "=", "\"", ";", " ">>,
                   <<"f", "o", "r", "{", "f", "o", "r">>}}

\* a handler that keeps its potential array at module level: the items
\* returned earlier are still in it
POSTAfterSharedPotential(req, earlier) ==
  LET alone == POST(req).returned
      kept  == [k \in 1..Len(earlier) |->
                  IF earlier[k].returned # <<>> /\ earlier[k].returned[1].status = 200
                    THEN earlier[k].returned[1].body.potentialIssues.items
                    ELSE <<>>]
      RECURSIVE Flat(_)
      Flat(ss) == IF ss = <<>> THEN <<>> ELSE Head(ss) \o Flat(Tail(ss))
  IN  IF alone # <<>> /\ alone[1].status = 200
        THEN <<[alone[1] EXCEPT !.body.potentialIssues.items = Flat(kept) \o @]>>
        ELSE alone

\* what POST returns for req in a process that answered `earlier` before:
\* the module holds the schema and the functions and no variable, so
\* nothing of `earlier` is read
POSTAfter(req, earlier) == POST(req).returned

InitServer ==
  /\ pending = <<>>
  /\ served = <<>>
  /\ isLoading = FALSE
  /\ error = <<>>
  /\ inFlight = <<>>
  /\ shown = "none"
  /\ request = Null
  /\ handled = FALSE
  /\ responses = <<>>
  /\ language = Null
  /\ code = Null
  /\ call = "none"
  /\ issues = Null
  /\ fixed = Null
  /\ review = Null

\* a request arrives: its handler starts and waits at await req.json()
Arrive ==
  /\ Len(pending) + Len(served) < MaxRequests
  /\ \E req \in ServerRequests : pending' = Append(pending, req)
  /\ UNCHANGED <<served, engineVars, httpVars, pageVars>>

\* one of the waiting handlers is resumed and runs to its return
Resume ==
  /\ \E i \in 1..Len(pending) :
       /\ served' = Append(served, [request  |-> pending[i],
                                    returned |-> POSTAfter(pending[i], served)])
       /\ pending' = SubSeq(pending, 1, i - 1) \o SubSeq(pending, i + 1, Len(pending))
  /\ UNCHANGED <<engineVars, httpVars, pageVars>>

NextServer == Arrive \/ Resume

SpecServer == InitServer /\ [][NextServer]_vars

(***************************************************************************)
(* The page component Home.  One action per event handler; handleReview is *)
(* two steps, the part before await fetch and the part after it.  A fetch  *)
(* in flight carries the body it was sent with and whether handleClear ran *)
(* since it was sent.                                                      *)
(***************************************************************************)
MaxPageWords == 2

PageWords == {<<" ">>, <<"x", "=", "x">>}
PageTexts == Texts(PageWords, MaxPageWords)
PageLanguages == {"C++", "Python"}

EmptyCodeMsg == <<"Please paste some code before requesting a review.">>
FailedMsg    == <<"Failed to generate review.">>
WentWrongMsg == <<"Something went wrong.">>

\* err.message of a rejected fetch: the runtime's text, or none
RejectionMessages == {<<"Failed to fetch">>, <<>>}

\* a Review button that stays enabled while a review is loading
ReviewDisabledEmptyOnly == Trim(code) = <<>>

\* disabled={!code.trim() || isLoading}
ReviewDisabled == Trim(code) = <<>> \/ isLoading

InitPage ==
  /\ language = "C++"
  /\ code = <<>>
  /\ review = Null
  /\ isLoading = FALSE
  /\ error = Null
  /\ inFlight = <<>>
  /\ shown = "none"
  /\ call = "none"
  /\ issues = Null
  /\ fixed = Null
  /\ request = Null
  /\ handled = FALSE
  /\ responses = <<>>
  /\ pending = <<>>
  /\ served = <<>>

\* textarea onChange
SetCode ==
  /\ \E t \in PageTexts : code' = t
  /\ UNCHANGED <<language, review, isLoading, error, inFlight, shown>>
  /\ UNCHANGED <<call, issues, fixed, httpVars, serverVars>>

\* select onChange
SetLanguage ==
  /\ \E l \in PageLanguages : language' = l
  /\ UNCHANGED <<code, review, isLoading, error, inFlight, shown>>
  /\ UNCHANGED <<call, issues, fixed, httpVars, serverVars>>

\* a click on the Review button: handleReview up to await fetch
HandleReview ==
  /\ ~ReviewDisabled
  /\ LET trimmed == Trim(code)
     IN  IF trimmed = <<>>
           THEN /\ error' = EmptyCodeMsg
                /\ shown' = "current"
                /\ UNCHANGED <<isLoading, inFlight>>
           ELSE /\ isLoading' = TRUE
                /\ error' = Null
                /\ inFlight' = Append(inFlight, [language |-> language,
                                                 code     |-> trimmed,
                                                 cleared  |-> FALSE])
                /\ UNCHANGED shown
  /\ UNCHANGED <<language, code, review>>
  /\ UNCHANGED <<call, issues, fixed, httpVars, serverVars>>

\* a fetch settles and handleReview runs from await fetch to its end: the
\* handler's answer, an answer that is not ok and has no JSON body, or a
\* rejection
Settle ==
  /\ \E i \in 1..Len(inFlight) :
       LET req == inFlight[i]
           res == POST([type     |-> "object",
                        language |-> JsonString(Chars(req.language)),
                        code     |-> JsonString(req.code)]).returned[1]
       IN  /\ inFlight' = SubSeq(inFlight, 1, i - 1)
                            \o SubSeq(inFlight, i + 1, Len(inFlight))
           /\ shown' = IF req.cleared THEN "stale" ELSE "current"
           /\ \/ /\ res.status = 200
                 /\ review' = res.body
                 /\ UNCHANGED error
              \/ /\ res.status # 200
                 /\ error' = res.body.error
                 /\ review' = Null
              \/ /\ error' = FailedMsg
                 /\ review' = Null
              \/ /\ \E m \in RejectionMessages :
                      error' = IF m # <<>> THEN m ELSE WentWrongMsg
                 /\ review' = Null
  /\ isLoading' = FALSE
  /\ UNCHANGED <<language, code>>
  /\ UNCHANGED <<call, issues, fixed, httpVars, serverVars>>

\* a click on the Clear button
HandleClear ==
  /\ code' = <<>>
  /\ review' = Null
  /\ error' = Null
  /\ inFlight' = [k \in 1..Len(inFlight) |-> [inFlight[k] EXCEPT !.cleared = TRUE]]
  /\ shown' = "none"
  /\ UNCHANGED <<language, isLoading>>
  /\ UNCHANGED <<call, issues, fixed, httpVars, serverVars>>

NextPage ==
  \/ SetCode
  \/ SetLanguage
  \/ HandleReview
  \/ Settle
  \/ HandleClear

SpecPage == InitPage /\ [][NextPage]_vars

(***************************************************************************)
(* Vocabulary of the properties, defined on the text alone.                *)
(***************************************************************************)
TerminatorUsing == {"C++", "Java", "JavaScript", "TypeScript"}

\* the bracket characters of a text, in order
Brackets(c) == SelectSeq(c, LAMBDA ch : ch \in {"(", ")", "{", "}", "[", "]"})

MatchingPairs == {<<"(", ")">>, <<"{", "}">>, <<"[", "]">>}

\* a bracket sequence is correctly nested when deleting adjacent matching
\* pairs, one at a time, leaves nothing
RECURSIVE Reduces(_)
Reduces(b) ==
  \/ b = <<>>
  \/ \E i \in 1..(Len(b) - 1) :
       /\ <<b[i], b[i + 1]>> \in MatchingPairs
       /\ Reduces(SubSeq(b, 1, i - 1) \o SubSeq(b, i + 2, Len(b)))

CorrectlyNested(c) == Reduces(Brackets(c))

\* how often message m occurs in a result
Occurrences(msgs, m) == Cardinality({k \in 1..Len(msgs) : msgs[k] = m})

\* 1-based number of the line that holds position i, and the number of lines
LineOf(c, i)  == 1 + Cardinality({j \in 1..(i - 1) : c[j] = "\n"})
LineCount(c)  == 1 + Cardinality({j \in 1..Len(c) : c[j] = "\n"})
QuotesOnLine(c, k) ==
  Cardinality({i \in 1..Len(c) : c[i] = "\"" /\ LineOf(c, i) = k})
OddQuoteLines(c) == {k \in 1..LineCount(c) : QuotesOnLine(c, k) % 2 = 1}

\* the text of line k: its characters between the line breaks
LineText(c, k) ==
  LET at == {i \in 1..Len(c) : c[i] # "\n" /\ LineOf(c, i) = k}
  IN  IF at = {} THEN <<>>
      ELSE SubSeq(c, CHOOSE i \in at : \A j \in at : i <= j,
                     CHOOSE i \in at : \A j \in at : j <= i)

Letters == {LowerCase[k] : k \in 1..26} \cup {UpperCase[k] : k \in 1..26}
Digits  == {"0", "1", "2", "3", "4", "5", "6", "7", "8", "9"}

Blank(s) == \A i \in 1..Len(s) : s[i] = " "

\* s is an identifier or number, possibly with blanks around it
Operand(s) ==
  \E a \in 1..Len(s) : \E b \in a..Len(s) :
    /\ Blank(SubSeq(s, 1, a - 1))
    /\ Blank(SubSeq(s, b + 1, Len(s)))
    /\ \A i \in a..b : s[i] \in Letters \cup Digits
    /\ SubSeq(s, a, b) \notin {StrIf, StrFor, StrWhile, StrReturn}

\* a line of the shape  name = value  with no terminator
BareAssignment(line) ==
  \E p \in 1..Len(line) :
    /\ line[p] = "="
    /\ Operand(SubSeq(line, 1, p - 1))
    /\ Operand(SubSeq(line, p + 1, Len(line)))

\* positions where a loop keyword starts
LoopKeywordAt(c, i) ==
  \E w \in {<<"f", "o", "r">>, <<"w", "h", "i", "l", "e">>} :
    /\ i + Len(w) - 1 <= Len(c)
    /\ \A k \in 1..Len(w) : c[i + k - 1] = w[k]

LoopKeywordCount(c) == Cardinality({i \in 1..Len(c) : LoopKeywordAt(c, i)})

\* a loop keyword inside the still open block of an earlier loop keyword
NestedLoops(c) ==
  \E i \in 1..Len(c) : \E j \in (i + 1)..Len(c) :
    /\ LoopKeywordAt(c, i)
    /\ LoopKeywordAt(c, j)
    /\ \E b \in (i + 1)..(j - 1) :
         /\ c[b] = "{"
         /\ Cardinality({k \in (b + 1)..(j - 1) : c[k] = "}"})
              <= Cardinality({k \in (b + 1)..(j - 1) : c[k] = "{"})

(***************************************************************************)
(* Properties.                                                             *)
(***************************************************************************)

\* C1: for a terminator-using language a second run of generateSuggestedFix
\* on its own output returns that output unchanged.
C1_FixIsIdempotent ==
  (call = "generateSuggestedFix" /\ language \in TerminatorUsing)
    => GenerateSuggestedFix(language, fixed) = fixed

\* some checker of the composer reports something for the input
SomeCheckerFires ==
  \/ DetectMissingSemicolons(language, code) # <<>>
  \/ DetectUnclosedQuotes(code) # <<>>
  \/ CheckUnbalancedBraces(code) # <<>>
  \/ DebugOutput(code)
  \/ HasTodo(code)

\* C2: potentialIssues.items is never empty; it is exactly the placeholder
\* when no checker fires and holds no placeholder when one does.
C2_IssuesNeverEmpty ==
  call = "analyzeCodeHeuristics" =>
    LET items == review.potentialIssues.items
    IN  /\ Len(items) > 0
        /\ ~SomeCheckerFires => items = <<NoIssuesMsg>>
        /\ SomeCheckerFires => Occurrences(items, NoIssuesMsg) = 0

C2_Witness ==
  /\ call = "analyzeCodeHeuristics"
  /\ code # <<>>
  /\ ~SomeCheckerFires
  /\ review.potentialIssues.items = <<NoIssuesMsg>>

\* C3: a text whose brackets are correctly nested gets no diagnostic from
\* checkUnbalancedBraces.
C3_NestedIsClean ==
  (call = "checkUnbalancedBraces" /\ CorrectlyNested(code)) => issues = <<>>

C3_Witness ==
  /\ call = "checkUnbalancedBraces"
  /\ CorrectlyNested(code)
  /\ Len(Brackets(code)) >= 4
  /\ Brackets(code)[2] \in {"(", "{", "["}
  /\ issues = <<>>

\* C4: openers left on the stack at the end of the scan give exactly one
\* 'not closed' diagnostic, the last of the result; an empty stack gives none.
C4_OneNotClosedLast ==
  call = "checkUnbalancedBraces" =>
    IF ScanBraces(code, Len(code)).stack # <<>>
      THEN /\ Occurrences(issues, NotClosedMsg) = 1
           /\ issues[Len(issues)] = NotClosedMsg
      ELSE Occurrences(issues, NotClosedMsg) = 0

C4_Witness ==
  /\ call = "checkUnbalancedBraces"
  /\ Len(ScanBraces(code, Len(code)).stack) >= 2
  /\ Len(issues) >= 2
  /\ issues[Len(issues)] = NotClosedMsg

\* C5: a closer met while the stack is empty gives one mismatch diagnostic
\* with that closer and its 0-based index, and the rest of the text is still
\* scanned: ")" alone gives the mismatch at index 0.
C5_CloserOnEmptyStack ==
  call = "checkUnbalancedBraces" =>
    /\ \A i \in 1..Len(code) :
         (code[i] \in {")", "}", "]"} /\ ScanBraces(code, i - 1).stack = <<>>)
           => Occurrences(issues, MismatchMsg(code[i], i - 1)) = 1
    /\ code = <<")">> => issues = <<MismatchMsg(")", 0)>>

C5_Witness ==
  /\ call = "checkUnbalancedBraces"
  /\ Len(code) >= 3
  /\ code[2] = "]"
  /\ ScanBraces(code, 1).stack = <<>>
  /\ Occurrences(issues, MismatchMsg("]", 1)) = 1
  /\ Len(issues) >= 2

\* C6: detectUnclosedQuotes reports line k exactly when line k holds an odd
\* number of quotes, once, and in increasing line order.
C6_OddQuoteLines ==
  call = "detectUnclosedQuotes" =>
    /\ \A k \in 1..LineCount(code) :
         Occurrences(issues, QuoteMsg(k)) =
           IF k \in OddQuoteLines(code) THEN 1 ELSE 0
    /\ Len(issues) = Cardinality(OddQuoteLines(code))
    /\ \A a, b \in 1..Len(issues) : a < b => issues[a][2] < issues[b][2]

C6_Witness ==
  /\ call = "detectUnclosedQuotes"
  /\ QuotesOnLine(code, 1) = 2
  /\ QuotesOnLine(code, 2) = 1
  /\ issues = <<QuoteMsg(2)>>

\* C7: for a terminator-using language every line that is an assignment
\* without ';' is flagged by detectMissingSemicolons with its 1-based number
\* and comes back from generateSuggestedFix with ';' appended.
C7_AssignmentFlaggedAndFixed ==
  language \in TerminatorUsing =>
    \A k \in 1..LineCount(code) :
      BareAssignment(LineText(code, k)) =>
        /\ call = "detectMissingSemicolons"
             => Occurrences(issues, SemicolonMsg(k)) = 1
        /\ call = "generateSuggestedFix"
             => LineText(fixed, k) = LineText(code, k) \o <<";">>

\* C8: the time label is quadratic for two nested loop constructs, linear
\* for one loop construct, constant for none.
C8_TimeLabel ==
  call = "analyzeCodeHeuristics" =>
    LET time == review.complexity.time
    IN  /\ NestedLoops(code) => time = TimeQuadratic
        /\ LoopKeywordCount(code) = 1 => time = TimeLinear
        /\ LoopKeywordCount(code) = 0 => time = TimeConstant

C8_Witness ==
  /\ call = "analyzeCodeHeuristics"
  /\ NestedLoops(code)
  /\ LoopKeywordCount(code) = 2
  /\ review.complexity.time = TimeQuadratic

\* C9: for a language outside the terminator-using set
\* detectMissingSemicolons returns the empty list.
C9_OtherLanguagesNotFlagged ==
  (call = "detectMissingSemicolons" /\ language \notin TerminatorUsing)
    => issues = <<>>

C9_Witness ==
  /\ call = "detectMissingSemicolons"
  /\ language \in {"Python", "Go", "javascript"}
  /\ BareAssignment(LineText(code, 1))
  /\ issues = <<>>

\* C10: for a language outside the terminator-using set generateSuggestedFix
\* returns the code unchanged, odd quote counts included.
C10_OtherLanguagesUnchanged ==
  (call = "generateSuggestedFix" /\ language \notin TerminatorUsing)
    => fixed = code

C10_Witness ==
  /\ call = "generateSuggestedFix"
  /\ language \in {"Python", "Go", "javascript"}
  /\ OddQuoteLines(code) # {}
  /\ \E k \in 1..LineCount(code) : Includes(LineText(code, k), <<"=">>)
  /\ fixed = code

\* the group of a diagnostic, read off its text: 1 terminator, 2 quote,
\* 3 bracket, 4 debug output, 5 TODO, 6 placeholder
Group(m) ==
  CASE Len(m) = 3 /\ m[3] = ": Missing semicolon (';')"              -> 1
    [] Len(m) = 3 /\ m[3] = ": Unclosed string literal (missing \")" -> 2
    [] Len(m) = 4                                                    -> 3
    [] m = <<"Opening braces/brackets not closed.">>                 -> 3
    [] m = <<"Debug output detected (cout / console.log / print).">> -> 4
    [] m = <<"TODO comments present in code.">>                      -> 5
    [] OTHER                                                         -> 6

\* C11: in potentialIssues.items the terminator diagnostics come first, then
\* the quote diagnostics, the bracket diagnostics, the debug-output
\* diagnostic and the TODO diagnostic.
C11_IssueOrder ==
  call = "analyzeCodeHeuristics" =>
    LET items == review.potentialIssues.items
    IN  \A a, b \in 1..Len(items) : a < b => Group(items[a]) <= Group(items[b])

C11_Witness ==
  /\ call = "analyzeCodeHeuristics"
  /\ {Group(review.potentialIssues.items[k]) :
        k \in 1..Len(review.potentialIssues.items)} = {1, 2, 3, 4, 5}

\* a request field that is missing or the empty string
MissingOrEmpty(v) == v.type = "undefined" \/ (v.type = "string" /\ v.text = <<>>)

\* the request parses as JSON and lacks a language or a code, or its code is
\* shorter than the schema's minimum
LacksLanguageOrCode(req) ==
  \/ req.type = "null"
  \/ /\ req.type = "object"
     /\ \/ MissingOrEmpty(req.language)
        \/ MissingOrEmpty(req.code)
        \/ (req.code.type = "string" /\ Len(req.code.text) < 5)

ReviewFields == {"potentialIssues", "improvements", "complexity", "suggestedFix"}

\* C12: a request without language or code, or with a code below the minimum
\* length, gets one 400 response with an error message and no review field,
\* and the analysis is not run.
C12_InvalidRequestRejected ==
  (handled /\ LacksLanguageOrCode(request)) =>
    /\ Len(responses) = 1
    /\ responses[1].status = 400
    /\ DOMAIN responses[1].body = {"error"}
    /\ Len(responses[1].body.error) > 0
    /\ DOMAIN responses[1].body \cap ReviewFields = {}
    /\ call = "none"

C12_Witness ==
  /\ handled
  /\ request.type = "object"
  /\ request.language = [type |-> "string", text |-> <<>>]
  /\ request.code.type = "string"
  /\ Len(request.code.text) = 5
  /\ responses[1].status = 400
  /\ call = "none"

\* a complete ReviewResult
CompleteReview(b) ==
  /\ ReviewFields \subseteq DOMAIN b
  /\ "items" \in DOMAIN b.potentialIssues
  /\ Len(b.potentialIssues.items) > 0
  /\ "items" \in DOMAIN b.improvements
  /\ Len(b.improvements.items) > 0
  /\ DOMAIN b.complexity = {"time", "space", "notes"}
  /\ b.complexity.time \in {"O(1)", "O(n)", "O(n^2)"}
  /\ b.complexity.space \in {"O(1)", "O(n)"}
  /\ Len(b.suggestedFix) >= 0

\* C13: every request gets exactly one response: a 200 with a complete
\* ReviewResult, a 400 with an error, or the generic 500; a body that does
\* not parse is answered too.
C13_OneResponse ==
  handled =>
    /\ Len(responses) = 1
    /\ \/ /\ responses[1].status = 200
          /\ CompleteReview(responses[1].body)
       \/ /\ responses[1].status = 400
          /\ DOMAIN responses[1].body = {"error"}
       \/ /\ responses[1].status = 500
          /\ responses[1].body =
               [error |-> <<"Internal error while analyzing code.">>]

C13_Witness ==
  /\ handled
  /\ request.type = "malformed"
  /\ Len(responses) = 1
  /\ responses[1].status = 500

\* C15: the analysis is never run on a code that is blank or shorter than
\* the minimum length.
C15_NoBlankOrShortCode ==
  (handled /\ call = "analyzeCodeHeuristics") =>
    /\ Len(code) >= 5
    /\ \E i \in 1..Len(code) : code[i] \notin {" ", "\t", "\r", "\n"}

SemicolonAppended(k) ==
  LET was == LineText(code, k)
      now == LineText(fixed, k)
  IN  Len(now) > Len(was) /\ now[Len(now)] = ";"

\* C16: for a terminator-using language generateSuggestedFix appends ';' to
\* a line exactly when detectMissingSemicolons flags that line.
C16_RepairedIffFlagged ==
  (call = "generateSuggestedFix" /\ language \in TerminatorUsing) =>
    \A k \in 1..LineCount(code) :
      SemicolonAppended(k)
        <=> Occurrences(DetectMissingSemicolons(language, code),
                        SemicolonMsg(k)) = 1

\* the terminator repair as decided on line t: t is terminator-expected, is
\* no block, conditional or loop line, and does not end with ';'
NeedsTerminator(t) ==
  /\ FixLikelyStatement(Trim(t))
  /\ ~FixIgnore(Trim(t))
  /\ ~EndsWith(Trim(t), <<";">>)

\* C17: a line that got a closing quote gets ';' exactly when the line with
\* the quote appended needs a terminator.
C17_TerminatorAfterQuote ==
  (call = "generateSuggestedFix" /\ language \in TerminatorUsing) =>
    \A k \in OddQuoteLines(code) :
      LET repaired == LineText(code, k) \o <<"\"">>
      IN  LineText(fixed, k) =
            IF NeedsTerminator(repaired) THEN repaired \o <<";">> ELSE repaired

\* the trimmed line is blank, a line comment, or ends with '{', '}' or ':'
Skippable(t) ==
  \/ t = <<>>
  \/ (Len(t) >= 2 /\ t[1] = "/" /\ t[2] = "/")
  \/ (t # <<>> /\ t[Len(t)] \in {"{", "}", ":"})

\* C18: detectMissingSemicolons flags no line that is blank, a line comment,
\* or ends with '{', '}' or ':'.
C18_SkippedLinesNotFlagged ==
  call = "detectMissingSemicolons" =>
    \A k \in 1..LineCount(code) :
      Skippable(Trim(LineText(code, k)))
        => Occurrences(issues, SemicolonMsg(k)) = 0

\* the trimmed line begins with the keyword of a conditional, loop or class
OpensConstruct(t) ==
  \E kw \in {<<"i", "f">>, <<"f", "o", "r">>, <<"w", "h", "i", "l", "e">>,
            <<"c", "l", "a", "s", "s">>} :
    /\ Len(t) >= Len(kw)
    /\ SubSeq(t, 1, Len(kw)) = kw
    /\ (Len(t) = Len(kw) \/ t[Len(kw) + 1] \in {" ", "("})

\* C19: detectMissingSemicolons flags no line that opens a conditional, a
\* loop or a class.
C19_ConstructLinesNotFlagged ==
  call = "detectMissingSemicolons" =>
    \A k \in 1..LineCount(code) :
      OpensConstruct(Trim(LineText(code, k)))
        => Occurrences(issues, SemicolonMsg(k)) = 0

ExpectedOpener(ch) ==
  CASE ch = ")" -> "(" [] ch = "}" -> "{" [] ch = "]" -> "[" [] OTHER -> "none"

\* the openers not yet consumed after n characters, when every closer takes
\* away the last one, whatever it is
RECURSIVE Remaining(_, _)
Remaining(c, n) ==
  IF n = 0 THEN <<>>
  ELSE LET r == Remaining(c, n - 1)
       IN  IF c[n] \in {"(", "{", "["} THEN Append(r, c[n])
           ELSE IF c[n] \in {")", "}", "]"} /\ r # <<>>
                  THEN SubSeq(r, 1, Len(r) - 1)
                  ELSE r

OpenersSeen(c, n) == Cardinality({i \in 1..n : c[i] \in {"(", "{", "["}})

ClosersOnNonEmpty(c, n) ==
  Cardinality({i \in 1..n : c[i] \in {")", "}", "]"} /\ Remaining(c, i - 1) # <<>>})

\* the closer at position i takes away something other than its opener
PopsOther(c, i) ==
  /\ c[i] \in {")", "}", "]"}
  /\ LET r == Remaining(c, i - 1)
     IN  r = <<>> \/ r[Len(r)] # ExpectedOpener(c[i])

\* C20: after every prefix the stack holds the openers not yet consumed, its
\* depth is openers seen minus closers met on a non-empty stack, and the
\* mismatch diagnostics are exactly those of the closers that took away
\* something other than their opener.
C20_StackDiscipline ==
  call = "checkUnbalancedBraces" =>
    /\ \A n \in 0..Len(code) :
         /\ ScanBraces(code, n).stack = Remaining(code, n)
         /\ Len(ScanBraces(code, n).stack)
              = OpenersSeen(code, n) - ClosersOnNonEmpty(code, n)
    /\ \A i \in 1..Len(code) :
         Occurrences(issues, MismatchMsg(code[i], i - 1))
           = IF PopsOther(code, i) THEN 1 ELSE 0
    /\ Cardinality({k \in 1..Len(issues) : Len(issues[k]) = 4})
         = Cardinality({i \in 1..Len(code) : PopsOther(code, i)})

C20_Witness ==
  /\ call = "checkUnbalancedBraces"
  /\ code = <<"(", "]", ")">>
  /\ issues = <<MismatchMsg("]", 1), MismatchMsg(")", 2)>>

\* the text holds the marker 'todo' or 'fixme' in some letter case
HasMarker(c) ==
  \/ Includes(ToLowerCase(c), <<"t", "o", "d", "o">>)
  \/ Includes(ToLowerCase(c), <<"f", "i", "x", "m", "e">>)

\* C21: analyzeCodeHeuristics appends the TODO diagnostic once when the code
\* holds 'todo' or 'fixme' in any letter case, and not otherwise.
C21_MarkerDiagnostic ==
  call = "analyzeCodeHeuristics" =>
    Occurrences(review.potentialIssues.items, TodoMsg)
      = IF HasMarker(code) THEN 1 ELSE 0

GenericSuggestions ==
  << <<"Use meaningful variable and function names.">>,
     <<"Add edge case tests.">>,
     <<"Split large functions into smaller ones.">> >>

\* C22: improvements.items starts with the fixed generic suggestions, and
\* for at least one language of the page it holds exactly one more item.
C22_ImprovementItems ==
  call = "analyzeCodeHeuristics" =>
    /\ Len(review.improvements.items) >= Len(GenericSuggestions)
    /\ SubSeq(review.improvements.items, 1, Len(GenericSuggestions))
         = GenericSuggestions
    /\ \E lang \in LANGUAGES :
         Len(AnalyzeCodeHeuristics(lang, code).improvements.items)
           = Len(GenericSuggestions) + 1

\* the text with every character that is no bracket replaced by a letter
BracketsOnly(c) ==
  [i \in 1..Len(c) |->
     IF c[i] \in {"(", ")", "{", "}", "[", "]"} THEN c[i] ELSE "x"]

\* C23: the result of checkUnbalancedBraces is the result for the bracket
\* characters at their indices alone, quotes and comment marks around them
\* making no difference, and it is empty only if the brackets of the whole
\* text are correctly nested.
C23_BracketsAlone ==
  call = "checkUnbalancedBraces" =>
    /\ issues = CheckUnbalancedBraces(BracketsOnly(code))
    /\ issues = <<>> => CorrectlyNested(code)

C23_Witness ==
  /\ call = "checkUnbalancedBraces"
  /\ code = <<"\"", "(", "\"", ")">>
  /\ issues = <<>>

Suffixes == {<<>>, <<"\"">>, <<";">>, <<"\"", ";">>}

\* C24: for a terminator-using language the suggested fix has the lines of
\* the input, each followed by nothing, '"', ';' or '";'.
C24_AppendsAtLineEnds ==
  (call = "generateSuggestedFix" /\ language \in TerminatorUsing) =>
    /\ LineCount(fixed) = LineCount(code)
    /\ \A k \in 1..LineCount(code) :
         \E s \in Suffixes : LineText(fixed, k) = LineText(code, k) \o s

C24_Witness ==
  /\ call = "generateSuggestedFix"
  /\ language \in TerminatorUsing
  /\ LineCount(code) >= 2
  /\ \E k \in 1..LineCount(code) :
       LET t == LineText(code, k)
       IN  /\ t # <<>>
           /\ t[1] = " "
           /\ LineText(fixed, k) = t \o <<"\"", ";">>

\* C25: for a terminator-using language every line of the suggested fix has
\* an even number of '"', and detectUnclosedQuotes finds nothing in it.
C25_FixClosesQuotes ==
  (call = "generateSuggestedFix" /\ language \in TerminatorUsing) =>
    /\ OddQuoteLines(fixed) = {}
    /\ DetectUnclosedQuotes(fixed) = <<>>

C25_Witness ==
  /\ call = "generateSuggestedFix"
  /\ language \in TerminatorUsing
  /\ Cardinality(OddQuoteLines(code)) >= 2
  /\ \E k \in OddQuoteLines(code) : Includes(LineText(code, k), <<"=">>)
  /\ DetectUnclosedQuotes(fixed) = <<>>

\* two occurrences of a loop keyword, the second starting after the first ends
TwoApart(c) ==
  \E i \in 1..Len(c) : \E j \in (i + 1)..Len(c) :
    /\ LoopKeywordAt(c, i)
    /\ LoopKeywordAt(c, j)
    /\ j >= i + (IF c[i] = "f" THEN 3 ELSE 5)

\* C26: the time label is O(1) exactly when the text holds no 'for' and no
\* 'while', quadratic exactly when it holds two occurrences one after the
\* other, linear exactly when it holds one occurrence; a text matching the
\* nested pattern matches the single-loop pattern.
C26_LabelBySubstrings ==
  call = "analyzeCodeHeuristics" =>
    LET time == review.complexity.time
    IN  /\ time = TimeConstant  <=> LoopKeywordCount(code) = 0
        /\ time = TimeQuadratic <=> TwoApart(code)
        /\ time = TimeLinear    <=> LoopKeywordCount(code) = 1
        /\ Nested(code) => HasLoop(code)

C26_Witness ==
  /\ call = "analyzeCodeHeuristics"
  /\ LoopKeywordCount(code) = 2
  /\ ~NestedLoops(code)
  /\ \E i \in 1..Len(code) : code[i] = "}"
  /\ review.complexity.time = TimeQuadratic

\* C27: on the page error and review are never both set, at most one fetch
\* is in flight, and isLoading is false when none is.
C27_PageState ==
  /\ ~(error # Null /\ review # Null)
  /\ Len(inFlight) <= 1
  /\ inFlight = <<>> => ~isLoading

C27_Witness ==
  /\ Len(inFlight) = 1
  /\ isLoading
  /\ review # Null
  /\ error = Null
  /\ shown = "current"

\* C28: a fetch that was in flight when handleClear ran leaves review and
\* error null when it settles.
C28_ClearedStaysClear ==
  shown = "stale" => (review = Null /\ error = Null)

====
